---- MODULE Spec2Model ----
(***************************************************************************)
(* A model of src/main.rs: the html minimizer that walks the gh-pages      *)
(* tree of a git repository, minifies and compresses every .html blob      *)
(* (memoized in cache.tsv), builds a new tree and checks it out.           *)
(*                                                                         *)
(* Object ids.  Blobs are byte strings; a byte string is abstracted to a   *)
(* natural number (its "content code") and the Oid of a blob is that code, *)
(* so equal content has equal Oid.  A tree is content-addressed as well:   *)
(* the Oid of a tree is represented by its set of entries.                 *)
(***************************************************************************)
EXTENDS Integers, Sequences, FiniteSets, TLC

\* ------------------------------------------------------------------ bounds
\* Number of distinct html blob ids a source tree may use (ids 1..MaxBlob).
MaxBlob == 2
\* Total number of entries, over all levels, of a source tree.
MaxNodes == 3
\* Capacity of the BufWriter in lines (std's is 8 KiB).
BufCap == 2
\* Number of hex digits of an Oid (git's is 40).
OidHexLen == 2

\* --------------------------------------------------------------- constants
filemode_directory == 16384
filemode_regular == 33188

\* ------------------------------------------------------------------- state
VARIABLES
  pc,         \* where main is: "load", "minimize", "walk", "save", "serialize",
              \* "rename", "checkout", or how it ended: "done" (Ok), "aborted"
              \* (Err returned), "panicked", "crashed" (the process was killed)
  why,        \* what ended the run
  src,        \* the gh-pages branch: whether it exists, and its root tree
  file,       \* cache.tsv
  newfile,    \* cache.tsv.new
  cache,      \* the Cache of main
  sizes,      \* the running total of minimize
  stack,      \* the active calls of minimize_tree, the root call first
  ret,        \* the value the last finished call of minimize_tree returned
  root_tree,  \* the result of minimize
  out,        \* the buffer of the BufWriter of Cache::save
  pending,    \* the lines Cache::serialize has still to write
  target,     \* the tree that is checked out at the target path
  calls,      \* how often minimize_blob was invoked in this run, per id
  used,       \* the records minimize_blob_cached returned in this run, in order
  written,    \* the blobs and trees this run wrote to the store
  fault,      \* the fault (an I/O error, a kill) injected into this run
  loaded,     \* how Cache::load ended in this run and the cache main started with
  start,      \* what happened to cache.tsv before this run, and its content then
  prev        \* what earlier runs on this source tree produced

vars == <<pc, why, src, file, newfile, cache, sizes, stack, ret, root_tree, out,
          pending, target, calls, used, written, fault, loaded, start,
          prev>>

\* ------------------------------------------------------------------- names
\* A name, and a line of the cache file, is a sequence of characters.
TAB == "\t"
DotHtml == <<".", "h", "t", "m", "l">>
DotPng == <<".", "p", "n", "g">>
DotJpg == <<".", "j", "p", "g">>
DotGz == <<".", "g", "z">>
DotBr == <<".", "b", "r">>
Theme == <<"t", "h", "e", "m", "e">>
IndexHtml == <<"i">> \o DotHtml
LogoPng == <<"a">> \o DotPng
NotesMd == <<"n", ".", "m", "d">>
Docs == <<"d">>
Sub == <<"s">>

\* name.ends_with(suffix)
ends_with(name, suffix) ==
  /\ Len(name) >= Len(suffix)
  /\ SubSeq(name, Len(name) - Len(suffix) + 1, Len(name)) = suffix

\* ------------------------------------------------------- number <-> string
HexDigits == <<"0", "1", "2", "3", "4", "5", "6", "7", "8", "9",
               "a", "b", "c", "d", "e", "f">>
DecDigits == SubSeq(HexDigits, 1, 10)

RECURSIVE Pow(_, _)
Pow(b, e) == IF e = 0 THEN 1 ELSE b * Pow(b, e - 1)

DigitVal(digits, c) == (CHOOSE i \in 1..Len(digits) : digits[i] = c) - 1
IsDigit(digits, c) == \E i \in 1..Len(digits) : digits[i] = c

\* A variant of OidToString that drops the leading zeros of the id.
RECURSIVE OidToString_unpadded(_)
OidToString_unpadded(oid) ==
  IF oid < 16 THEN <<HexDigits[oid + 1]>>
  ELSE OidToString_unpadded(oid \div 16) \o <<HexDigits[(oid % 16) + 1]>>

\* Oid::to_string: all the hex digits of the id, most significant first.
OidToString(oid) ==
  [i \in 1..OidHexLen |-> HexDigits[((oid \div Pow(16, OidHexLen - i)) % 16) + 1]]

RECURSIVE HexValue(_, _)
HexValue(s, i) ==
  IF i > Len(s) THEN 0
  ELSE DigitVal(HexDigits, s[i]) * Pow(16, OidHexLen - i) + HexValue(s, i + 1)

\* Oid::from_str: 1..OidHexLen hex digits; a short string gives the leading
\* digits and the rest of the id is zero.
OidFromStr(s) ==
  IF Len(s) = 0 \/ Len(s) > OidHexLen \/ \E i \in 1..Len(s) : ~IsDigit(HexDigits, s[i])
  THEN [ok |-> FALSE, val |-> 0]
  ELSE [ok |-> TRUE, val |-> HexValue(s, 1)]

\* Display for usize: decimal, no leading zeros.
RECURSIVE UsizeToString(_)
UsizeToString(n) ==
  IF n < 10 THEN <<DecDigits[n + 1]>>
  ELSE UsizeToString(n \div 10) \o <<DecDigits[(n % 10) + 1]>>

RECURSIVE DecValue(_, _)
DecValue(s, acc) ==
  IF s = <<>> THEN acc ELSE DecValue(Tail(s), 10 * acc + DigitVal(DecDigits, Head(s)))

\* usize::from_str: an optional "+", then one or more decimal digits.
UsizeFromStr(s) ==
  LET d == IF s # <<>> /\ Head(s) = "+" THEN Tail(s) ELSE s
  IN  IF d = <<>> \/ \E i \in 1..Len(d) : ~IsDigit(DecDigits, d[i])
      THEN [ok |-> FALSE, val |-> 0]
      ELSE [ok |-> TRUE, val |-> DecValue(d, 0)]

\* ------------------------------------------------------------------- Sizes
SizesDefault == [original_len |-> 0, minified_len |-> 0, gz_len |-> 0, br_len |-> 0]

\* A variant of SizesAdd that adds the brotli length of the second operand
\* to the gzip total.
SizesAdd_swapped(a, b) ==
  [original_len |-> a.original_len + b.original_len,
   minified_len |-> a.minified_len + b.minified_len,
   gz_len |-> a.gz_len + b.br_len,
   br_len |-> a.br_len + b.br_len]

\* impl Add for Sizes
SizesAdd(a, b) ==
  [original_len |-> a.original_len + b.original_len,
   minified_len |-> a.minified_len + b.minified_len,
   gz_len |-> a.gz_len + b.gz_len,
   br_len |-> a.br_len + b.br_len]

\* ------------------------------------------------------ the blob transform
\* Content codes: source blobs are below 16; minify_html, compress_zopfli
\* and compress_brotli are deterministic functions of their input bytes.
\* minify_html is not injective (two documents may minify to the same bytes).
minify_html(bytes) == 16 + (bytes \div 2)
\* A variant of compress_zopfli that puts the time of the run into the gzip
\* header: a first run and a later run differ.
compress_zopfli_mtime(bytes) == 32 + bytes + (IF prev.how = "none" THEN 0 ELSE 8)

compress_zopfli(bytes) == 32 + bytes
compress_brotli(bytes) == 64 + bytes
\* Length of a byte string.
ByteLen(bytes) == 12 - 2 * (bytes \div 16) + (bytes % 16)

\* minimize_blob(repo, id) when no store operation fails: the record, and
\* (in order) the blobs it writes to the store.
minimize_blob(id) ==
  LET minified_bytes == minify_html(id)
      gz_bytes == compress_zopfli(minified_bytes)
      br_bytes == compress_brotli(minified_bytes)
  IN  [minified |-> minified_bytes,
       gz |-> gz_bytes,
       br |-> br_bytes,
       sizes |-> [original_len |-> ByteLen(id),
                  minified_len |-> ByteLen(minified_bytes),
                  gz_len |-> ByteLen(gz_bytes),
                  br_len |-> ByteLen(br_bytes)]]

\* ------------------------------------------------------------------- Cache
\* Cache(BTreeMap<Oid, MinifiedBlobs>): a function from its keys to records.
CacheNew == [k \in {} |-> minimize_blob(0)]

\* A variant of CacheInsert that replaces the map by the new record alone.
CacheInsert_replace(cache_, key, rec) == [k \in {key} |-> rec]

\* BTreeMap::insert, and the insert of a vacant entry.
CacheInsert(cache_, key, rec) ==
  [k \in DOMAIN cache_ \cup {key} |-> IF k = key THEN rec ELSE cache_[k]]

\* A variant of SortedKeys with the comparison reversed: descending order.
RECURSIVE SortedKeys_desc(_)
SortedKeys_desc(keys) ==
  IF keys = {} THEN <<>>
  ELSE LET m == CHOOSE k \in keys : \A j \in keys : k >= j
       IN  <<m>> \o SortedKeys_desc(keys \ {m})

\* The keys in ascending order: the iteration order of the BTreeMap.
RECURSIVE SortedKeys(_)
SortedKeys(keys) ==
  IF keys = {} THEN <<>>
  ELSE LET m == CHOOSE k \in keys : \A j \in keys : k <= j
       IN  <<m>> \o SortedKeys(keys \ {m})

RECURSIVE Join(_)
Join(fields) ==
  IF Len(fields) = 1 THEN fields[1]
  ELSE fields[1] \o <<TAB>> \o Join(Tail(fields))

\* Cache::HEADER; each column title is one token.
HEADER == Join(<<
  <<"blob">>, <<"blob_len">>,
  <<"minified">>, <<"minified_len">>,
  <<"gz">>, <<"gz_len">>,
  <<"br">>, <<"br_len">>
>>)

\* A variant of SerializeRow that writes the gz and br columns in the order
\* br, gz.
SerializeRow_swapped(k, v) ==
  Join(<<
    OidToString(k),
    UsizeToString(v.sizes.original_len),
    OidToString(v.minified),
    UsizeToString(v.sizes.minified_len),
    OidToString(v.br),
    UsizeToString(v.sizes.br_len),
    OidToString(v.gz),
    UsizeToString(v.sizes.gz_len)
  >>)

\* One data row as written by the writeln! in Cache::serialize.
SerializeRow(k, v) ==
  Join(<<
    OidToString(k),
    UsizeToString(v.sizes.original_len),
    OidToString(v.minified),
    UsizeToString(v.sizes.minified_len),
    OidToString(v.gz),
    UsizeToString(v.sizes.gz_len),
    OidToString(v.br),
    UsizeToString(v.sizes.br_len)
  >>)

\* Cache::serialize: the lines it writes, in order.
Serialize(cache_) ==
  LET keys == SortedKeys(DOMAIN cache_)
  IN  <<HEADER>> \o [i \in 1..Len(keys) |-> SerializeRow(keys[i], cache_[keys[i]])]

\* line.split('\t')
RECURSIVE Split(_, _)
Split(line, cur) ==
  IF line = <<>> THEN <<cur>>
  ELSE IF Head(line) = TAB THEN <<cur>> \o Split(Tail(line), <<>>)
  ELSE Split(Tail(line), Append(cur, Head(line)))

\* A byte that is not valid UTF-8: BufRead::lines yields an Err for its line.
BadUtf8 == "\\xff"
ReadFails(line) == \E i \in 1..Len(line) : line[i] = BadUtf8

\* The body of the for loop of Cache::deserialize for one line: "ok" with
\* the key and record, or "panic" when an expect fails.
ParseRow(line) ==
  LET parts == Split(line, <<>>)
      part(i) == IF i <= Len(parts) THEN parts[i] ELSE <<>>
      oid(i) == OidFromStr(part(i))
      len(i) == UsizeFromStr(part(i))
      good == /\ Len(parts) >= 8
              /\ \A i \in {1, 3, 5, 7} : oid(i).ok
              /\ \A i \in {2, 4, 6, 8} : len(i).ok
  IN  IF ~good THEN [status |-> "panic", key |-> 0, rec |-> minimize_blob(0)]
      ELSE [status |-> "ok",
            key |-> oid(1).val,
            rec |-> [minified |-> oid(3).val,
                     gz |-> oid(5).val,
                     br |-> oid(7).val,
                     sizes |-> [original_len |-> len(2).val,
                                minified_len |-> len(4).val,
                                gz_len |-> len(6).val,
                                br_len |-> len(8).val]]]

RECURSIVE DeserializeRows(_, _)
DeserializeRows(lines, result) ==
  IF lines = <<>> THEN [status |-> "ok", cache |-> result]
  ELSE IF ReadFails(Head(lines)) THEN [status |-> "err", cache |-> CacheNew]
  ELSE LET row == ParseRow(Head(lines))
       IN  IF row.status = "panic" THEN [status |-> "panic", cache |-> CacheNew]
           ELSE DeserializeRows(Tail(lines), CacheInsert(result, row.key, row.rec))

\* Cache::deserialize: "ok" with the cache, "err" (an io::Error is returned)
\* or "panic" (an assertion or expect fails).
Deserialize(lines) ==
  IF lines = <<>> THEN [status |-> "panic", cache |-> CacheNew]
  ELSE IF ReadFails(Head(lines)) THEN [status |-> "err", cache |-> CacheNew]
  ELSE IF Head(lines) # HEADER THEN [status |-> "panic", cache |-> CacheNew]
  ELSE DeserializeRows(Tail(lines), CacheNew)

\* ------------------------------------------------------------ source trees
\* A tree entry: name, kind, id and, for a subdirectory, the entries of the
\* tree its id names (sub).  Kind "commit" is a submodule link: an entry that
\* is neither a blob nor a tree.
BlobEntry(name, id) == [name |-> name, kind |-> "blob", id |-> id, sub |-> {}]
TreeEntry(name, sub) == [name |-> name, kind |-> "tree", id |-> 0, sub |-> sub]
CommitEntry(name) == [name |-> name, kind |-> "commit", id |-> 11, sub |-> {}]

HtmlIds == 1..MaxBlob
LeafEntries ==
  {BlobEntry(IndexHtml, i) : i \in HtmlIds}
    \cup {BlobEntry(LogoPng, 9), BlobEntry(NotesMd, 10), CommitEntry(Sub)}
DirNames == {Docs, Theme, IndexHtml \o DotGz}

Names(tree) == {e.name : e \in tree}

RECURSIVE TreeSize(_)
TreeSize(tree) ==
  IF tree = {} THEN 0
  ELSE LET e == CHOOSE x \in tree : TRUE
       IN  1 + TreeSize(e.sub) + TreeSize(tree \ {e})

\* The trees at `depth` that have at most n entries in total, each paired
\* with the number of its entries.
RECURSIVE SizedTrees(_, _)
SizedTrees(n, depth) ==
  IF n = 0 THEN {<<{}, 0>>}
  ELSE LET smaller == SizedTrees(n - 1, depth)
           below == SizedTrees(n - 1, depth + 1)
           leaves == {p \in smaller \X LeafEntries :
                        /\ p[1][2] + 1 <= n
                        /\ p[2].name \notin Names(p[1][1])}
           dirs == {p \in smaller \X (DirNames \X below) :
                        /\ p[1][2] + 1 + p[2][2][2] <= n
                        /\ p[2][1] \notin Names(p[1][1])}
       IN  smaller
             \cup {<<p[1][1] \cup {p[2]}, p[1][2] + 1>> : p \in leaves}
             \cup {<<p[1][1] \cup {TreeEntry(p[2][1], p[2][2][1])},
                     p[1][2] + 1 + p[2][2][2]>> : p \in dirs}

\* The trees at `depth` that have at most n entries in total.
Trees(n, depth) == {p[1] : p \in SizedTrees(n, depth)}

SourceTrees == Trees(MaxNodes, 0)

\* tree.iter(): the entries in the order of their names.
NameOrder == <<LogoPng, Docs, IndexHtml, IndexHtml \o DotGz, NotesMd, Sub, Theme>>
RECURSIVE IterFrom(_, _)
IterFrom(tree, i) ==
  IF i > Len(NameOrder) THEN <<>>
  ELSE (IF NameOrder[i] \in Names(tree)
        THEN <<CHOOSE e \in tree : e.name = NameOrder[i]>>
        ELSE <<>>) \o IterFrom(tree, i + 1)
Iter(tree) == IterFrom(tree, 1)

\* ------------------------------------------------------------ output trees
\* An entry of a TreeBuilder: name, id, mode and, for a directory, the
\* entries of the written tree its id names.
OutFile(name, id) == [name |-> name, id |-> id, mode |-> filemode_regular, sub |-> {}]
OutDir(name, sub) == [name |-> name, id |-> 0, mode |-> filemode_directory, sub |-> sub]

\* builder.insert: an entry of the same name is replaced.
BuilderInsert(builder, entry) ==
  {e \in builder : e.name # entry.name} \cup {entry}

None == [some |-> FALSE, tree |-> {}]
Some(tree) == [some |-> TRUE, tree |-> tree]

Missing == [exists |-> FALSE, lines |-> <<>>]
FileOf(lines) == [exists |-> TRUE, lines |-> lines]

\* ------------------------------------------------------------ the program
\* One call of minimize_tree: the tree, the entries the for loop has still to
\* visit (the first is the current one), the TreeBuilder and the depth.
Frame(name, tree, depth) ==
  [name |-> name, tree |-> tree, todo |-> Iter(tree), builder |-> {}, depth |-> depth]

Top == stack[Len(stack)]
Entry == Head(Top.todo)

NoRet == [valid |-> FALSE, tree |-> {}, depth |-> 0, result |-> None]
NoCalls == [id \in HtmlIds |-> 0]
NoneWritten == [blobs |-> {}, trees |-> {}]
NotLoaded == [how |-> "none", cache |-> CacheNew]
NoPrev == [root |-> None, how |-> "none", coldfile |-> Missing, coldroot |-> None]

\* The caches earlier runs on other trees may have left behind: of the
\* documents 1..n, for some n.
ValidCaches == {[id \in 1..n |-> minimize_blob(id)] : n \in 1..MaxBlob}

Init ==
  /\ prev = NoPrev
  /\ pc = "load"
  /\ why = "-"
  /\ src \in {[exists |-> FALSE, tree |-> {}]}
               \cup {[exists |-> TRUE, tree |-> t] : t \in SourceTrees}
  /\ file \in {Missing} \cup {FileOf(Serialize(c)) : c \in ValidCaches}
  /\ newfile = Missing
  /\ cache = CacheNew
  /\ sizes = SizesDefault
  /\ stack = <<>>
  /\ ret = NoRet
  /\ root_tree = None
  /\ out = <<>>
  /\ pending = <<>>
  /\ target = None
  /\ calls = NoCalls
  /\ used = <<>>
  /\ written = NoneWritten
  /\ fault = "-"
  /\ loaded = NotLoaded
  /\ start = [how |-> "init", file |-> file]

\* The run ends: main returns an Err, panics, or the process is killed.
Exit(state, reason) ==
  /\ pc' = state
  /\ why' = reason
  /\ stack' = <<>>
  /\ out' = <<>>
  /\ pending' = <<>>

\* At most one fault is injected, and into the first run only.
Fault(name) == fault = "-" /\ start.how = "init" /\ fault' = name

\* ------------------------------------------------------------------- main
\* Cache::load when no read fails: "missing" (File::open fails), or how
\* Cache::deserialize ends; with the cache main goes on with.
CacheLoad(f) ==
  IF ~f.exists THEN [how |-> "missing", cache |-> CacheNew]
  ELSE LET r == Deserialize(f.lines)
       IN  [how |-> r.status, cache |-> r.cache]

\* Cache::load("cache.tsv") and the match on its result.
Load ==
  /\ pc = "load"
  /\ \/ \* the file is there, but opening or reading it fails
        /\ file.exists
        /\ Fault("open")
        /\ loaded' = [how |-> "io", cache |-> CacheNew]
        /\ cache' = CacheNew
        /\ pc' = "minimize"
        /\ UNCHANGED why
     \/ /\ loaded' = CacheLoad(file)
        /\ cache' = loaded'.cache
        /\ IF loaded'.how = "panic"
           THEN pc' = "panicked" /\ why' = "load"
           ELSE pc' = "minimize" /\ UNCHANGED why
        /\ UNCHANGED fault
  /\ UNCHANGED <<src, file, newfile, sizes, stack, ret, root_tree, out, pending,
                 target, calls, used, written, start, prev>>

\* A variant of Minimize without the `?` on find_branch: a missing branch is
\* walked as an empty tree.
Minimize_nocheck ==
  /\ pc = "minimize"
  /\ \/ /\ Fault("peel")
        /\ Exit("aborted", "store")
        /\ UNCHANGED sizes
     \/ /\ stack' = <<Frame(<<>>, src.tree, 0)>>
        /\ sizes' = SizesDefault
        /\ pc' = "walk"
        /\ UNCHANGED <<why, out, pending, fault>>
  /\ UNCHANGED <<src, file, newfile, cache, ret, root_tree, target, calls, used,
                 written, loaded, start, prev>>

\* minimize up to the call of minimize_tree on the root.
Minimize ==
  /\ pc = "minimize"
  /\ \/ /\ ~src.exists
        /\ Exit("aborted", "branch")
        /\ UNCHANGED <<sizes, fault>>
     \/ /\ src.exists
        /\ Fault("peel")
        /\ Exit("aborted", "store")
        /\ UNCHANGED sizes
     \/ /\ src.exists
        /\ stack' = <<Frame(<<>>, src.tree, 0)>>
        /\ sizes' = SizesDefault
        /\ pc' = "walk"
        /\ UNCHANGED <<why, out, pending, fault>>
  /\ UNCHANGED <<src, file, newfile, cache, ret, root_tree, target, calls, used,
                 written, loaded, start, prev>>

\* ---------------------------------------------------------- minimize_tree
SetTop(frame) == [stack EXCEPT ![Len(stack)] = frame]
Advance(frame) == [frame EXCEPT !.todo = Tail(@)]

\* A variant of IsSkipped that skips the theme directory at every depth.
IsSkipped_anydepth(name, depth) == name = Theme

\* The test of the `continue` in the Tree arm.
IsSkipped(name, depth) == name = Theme /\ depth = 0

\* A variant of minimize_blob_cached that never looks the id up.
minimize_blob_cached_nocache(cache_, id) ==
  [cache |-> CacheInsert(cache_, id, minimize_blob(id)),
   blobs |-> minimize_blob(id),
   miss |-> TRUE]

\* minimize_blob_cached when minimize_blob does not fail: the cache after the
\* call, the record it returns and whether minimize_blob was invoked.
minimize_blob_cached(cache_, id) ==
  IF id \in DOMAIN cache_
  THEN [cache |-> cache_, blobs |-> cache_[id], miss |-> FALSE]
  ELSE [cache |-> CacheInsert(cache_, id, minimize_blob(id)),
        blobs |-> minimize_blob(id),
        miss |-> TRUE]

\* The blobs minimize_blob writes, in the order it writes them.
BlobsWritten(blobs) == <<blobs.minified, blobs.gz, blobs.br>>

\* The three builder.insert calls of the html arm.
InsertHtml(builder, name, blobs) ==
  BuilderInsert(
    BuilderInsert(
      BuilderInsert(builder, OutFile(name, blobs.minified)),
      OutFile(name \o DotGz, blobs.gz)),
    OutFile(name \o DotBr, blobs.br))

IsHtml(name) == ends_with(name, DotHtml)
\* A variant of IsImage that knows .jpg only.
IsImage_jpgonly(name) == ends_with(name, DotJpg)

\* The test of the second `if` of the Blob arm.
IsImage(name) == ends_with(name, DotPng) \/ ends_with(name, DotJpg)

\* The Tree arm when the entry is the theme directory of the root.
SkipTheme ==
  /\ pc = "walk"
  /\ Top.todo # <<>>
  /\ Entry.kind = "tree"
  /\ IsSkipped(Entry.name, Top.depth)
  /\ stack' = SetTop(Advance(Top))
  /\ UNCHANGED <<pc, why, src, file, newfile, cache, sizes, ret, root_tree, out,
                 pending, target, calls, used, written, fault, 
                 loaded, start, prev>>

\* The Tree arm up to the recursive call: find_tree, and the treebuilder of
\* the callee.
EnterTree ==
  /\ pc = "walk"
  /\ Top.todo # <<>>
  /\ Entry.kind = "tree"
  /\ ~IsSkipped(Entry.name, Top.depth)
  /\ \/ /\ Fault("find_tree")
        /\ Exit("aborted", "store")
     \/ /\ stack' = Append(stack, Frame(Entry.name, Entry.sub, Top.depth + 1))
        /\ UNCHANGED <<pc, why, out, pending, fault>>
  /\ UNCHANGED <<src, file, newfile, cache, sizes, ret, root_tree, target, calls,
                 used, written, loaded, start, prev>>

\* The Blob arm.
ProcessBlob ==
  /\ pc = "walk"
  /\ Top.todo # <<>>
  /\ Entry.kind = "blob"
  /\ LET name == Entry.name
         id == Entry.id
         r == minimize_blob_cached(cache, id)
         called == IF IsHtml(name) /\ r.miss
                   THEN [calls EXCEPT ![id] = @ + 1] ELSE calls
         b1 == IF IsHtml(name) THEN InsertHtml(Top.builder, name, r.blobs)
               ELSE Top.builder
         b2 == IF IsImage(name) THEN BuilderInsert(b1, OutFile(name, id)) ELSE b1
     IN  \/ \* minimize_blob fails: find_blob, or one of the three repo.blob
            /\ IsHtml(name) /\ r.miss
            /\ Fault("minimize_blob")
            /\ \E k \in 0..2 :
                 written' = [written EXCEPT
                               !.blobs = @ \cup {BlobsWritten(r.blobs)[i] : i \in 1..k}]
            /\ calls' = called
            /\ Exit("aborted", "store")
            /\ UNCHANGED <<cache, sizes, used>>
         \/ \* the first builder.insert fails
            /\ IsHtml(name) \/ IsImage(name)
            /\ Fault("insert")
            /\ calls' = called
            /\ IF IsHtml(name)
               THEN /\ cache' = r.cache
                    /\ used' = Append(used, [id |-> id, blobs |-> r.blobs])
                    /\ written' = IF r.miss
                                  THEN [written EXCEPT !.blobs = @ \cup
                                          {BlobsWritten(r.blobs)[i] : i \in 1..3}]
                                  ELSE written
               ELSE UNCHANGED <<cache, used, written>>
            /\ Exit("aborted", "store")
            /\ UNCHANGED sizes
         \/ /\ calls' = called
            /\ IF IsHtml(name)
               THEN /\ cache' = r.cache
                    /\ used' = Append(used, [id |-> id, blobs |-> r.blobs])
                    /\ sizes' = SizesAdd(sizes, r.blobs.sizes)
                    /\ written' = IF r.miss
                                  THEN [written EXCEPT !.blobs = @ \cup
                                          {BlobsWritten(r.blobs)[i] : i \in 1..3}]
                                  ELSE written
               ELSE UNCHANGED <<cache, used, sizes, written>>
            /\ stack' = SetTop(Advance([Top EXCEPT !.builder = b2]))
            /\ UNCHANGED <<pc, why, out, pending, fault>>
  /\ UNCHANGED <<src, file, newfile, ret, root_tree, target, loaded,
                 start, prev>>

\* The last arm: an entry that is neither a tree nor a blob.
BadKind ==
  /\ pc = "walk"
  /\ Top.todo # <<>>
  /\ Entry.kind \notin {"tree", "blob"}
  /\ Exit("panicked", "kind")
  /\ UNCHANGED <<src, file, newfile, cache, sizes, ret, root_tree, target, calls,
                 used, written, fault, loaded, start, prev>>

\* A variant of TreeResult without the is_empty test.
TreeResult_always(builder) == Some(builder)

\* What a call returns once its loop is over, given its builder.
TreeResult(builder) == IF builder = {} THEN None ELSE Some(builder)

\* The end of a call of minimize_tree, and what its caller does with the
\* result: the insert of the Tree arm, or the expect of minimize.
Return ==
  /\ pc = "walk"
  /\ Top.todo = <<>>
  /\ LET result == TreeResult(Top.builder)
         wrote == IF result.some
                  THEN [written EXCEPT !.trees = @ \cup {result.tree}]
                  ELSE written
     IN  \/ \* builder.write fails
            /\ result.some
            /\ Fault("tree_write")
            /\ Exit("aborted", "store")
            /\ UNCHANGED <<ret, root_tree, written>>
         \/ \* the builder.insert of the caller fails
            /\ result.some /\ Len(stack) > 1
            /\ Fault("insert")
            /\ written' = wrote
            /\ ret' = [valid |-> TRUE, tree |-> Top.tree, depth |-> Top.depth,
                       result |-> result]
            /\ Exit("aborted", "store")
            /\ UNCHANGED root_tree
         \/ /\ written' = wrote
            /\ ret' = [valid |-> TRUE, tree |-> Top.tree, depth |-> Top.depth,
                       result |-> result]
            /\ UNCHANGED fault
            /\ IF Len(stack) > 1
               THEN LET caller == stack[Len(stack) - 1]
                        builder == IF result.some
                                   THEN BuilderInsert(caller.builder,
                                          OutDir(Head(caller.todo).name, result.tree))
                                   ELSE caller.builder
                    IN  /\ stack' = Append(SubSeq(stack, 1, Len(stack) - 2),
                                      Advance([caller EXCEPT !.builder = builder]))
                        /\ UNCHANGED <<pc, why, out, pending, root_tree>>
               ELSE IF result.some
               THEN /\ root_tree' = result
                    /\ pc' = "save"
                    /\ stack' = <<>>
                    /\ UNCHANGED <<why, out, pending>>
               ELSE /\ Exit("panicked", "root")
                    /\ UNCHANGED root_tree
  /\ UNCHANGED <<src, file, newfile, cache, sizes, target, calls, used,
                 loaded, start, prev>>

\* -------------------------------------------------------------- Cache::save
\* A variant of Save that creates (and so truncates) cache.tsv itself.
Save_inplace ==
  /\ pc = "save"
  /\ \/ /\ Fault("create")
        /\ Exit("panicked", "save")
        /\ UNCHANGED file
     \/ /\ file' = FileOf(<<>>)
        /\ pending' = Serialize(cache)
        /\ out' = <<>>
        /\ pc' = "serialize"
        /\ UNCHANGED <<why, stack, fault>>
  /\ UNCHANGED <<src, newfile, cache, sizes, ret, root_tree, target, calls, used,
                 written, loaded, start, prev>>

\* File::create("cache.tsv.new") and the first lines of Cache::serialize.
Save ==
  /\ pc = "save"
  /\ \/ /\ Fault("create")
        /\ Exit("panicked", "save")
        /\ UNCHANGED newfile
     \/ /\ newfile' = FileOf(<<>>)
        /\ pending' = Serialize(cache)
        /\ out' = <<>>
        /\ pc' = "serialize"
        /\ UNCHANGED <<why, stack, fault>>
  /\ UNCHANGED <<src, file, cache, sizes, ret, root_tree, target, calls, used,
                 written, loaded, start, prev>>

\* One writeln! of Cache::serialize into the BufWriter: the buffer is flushed
\* to the file first when the line does not fit, and a line that is as large
\* as the buffer goes to the file directly.
SerializeWrite ==
  /\ pc = "serialize"
  /\ pending # <<>>
  /\ LET line == Head(pending)
         needflush == Len(out) + 1 > BufCap
         direct == 1 >= BufCap
         data == (IF needflush THEN out ELSE <<>>) \o (IF direct THEN <<line>> ELSE <<>>)
         kept == IF needflush THEN <<>> ELSE out
     IN  \/ \* the write to the file fails after part of the data
            /\ data # <<>>
            /\ Fault("write")
            /\ \E k \in 0..(Len(data) - 1) :
                 newfile' = FileOf(newfile.lines \o SubSeq(data, 1, k))
            /\ Exit("panicked", "save")
         \/ /\ newfile' = FileOf(newfile.lines \o data)
            /\ out' = IF direct THEN kept ELSE Append(kept, line)
            /\ pending' = Tail(pending)
            /\ UNCHANGED <<pc, why, stack, fault>>
  /\ UNCHANGED <<src, file, cache, sizes, ret, root_tree, target, calls, used,
                 written, loaded, start, prev>>

\* Cache::serialize returns Ok(()) and its BufWriter is dropped: the drop
\* flushes the buffer and ignores an error of that flush.  Cache::save
\* returns the Ok, so the expect of main passes.
SerializeEnd ==
  /\ pc = "serialize"
  /\ pending = <<>>
  /\ \/ /\ out # <<>>
        /\ Fault("flush")
        /\ \E k \in 0..(Len(out) - 1) :
             newfile' = FileOf(newfile.lines \o SubSeq(out, 1, k))
     \/ /\ newfile' = FileOf(newfile.lines \o out)
        /\ UNCHANGED <<fault>>
  /\ out' = <<>>
  /\ pc' = "rename"
  /\ UNCHANGED <<why, src, file, cache, sizes, stack, ret, root_tree, pending,
                 target, calls, used, written, loaded, start, prev>>

\* std::fs::rename("cache.tsv.new", "cache.tsv")
Rename ==
  /\ pc = "rename"
  /\ \/ /\ Fault("rename")
        /\ Exit("panicked", "rename")
        /\ UNCHANGED <<file, newfile>>
     \/ /\ file' = newfile
        /\ newfile' = Missing
        /\ pc' = "checkout"
        /\ UNCHANGED <<why, stack, out, pending, fault>>
  /\ UNCHANGED <<src, cache, sizes, ret, root_tree, target, calls, used, written,
                 loaded, start, prev>>

\* checkout_into and the end of main.
Checkout ==
  /\ pc = "checkout"
  /\ \/ /\ Fault("checkout")
        /\ Exit("aborted", "checkout")
        /\ UNCHANGED target
     \/ /\ target' = root_tree
        /\ pc' = "done"
        /\ UNCHANGED <<why, stack, out, pending, fault>>
  /\ UNCHANGED <<src, file, newfile, cache, sizes, ret, root_tree, calls, used,
                 written, loaded, start, prev>>

Running == {"load", "minimize", "walk", "save", "serialize", "rename", "checkout"}
Ended == {"done", "aborted", "panicked", "crashed"}

\* The process is killed (or the machine stops): the files and the store
\* stay as they are.  Of what was in memory only cache is kept, as a record
\* of what the run had computed.
Crash ==
  /\ pc \in Running
  /\ Fault("kill")
  /\ Exit("crashed", "kill")
  /\ sizes' = SizesDefault
  /\ ret' = NoRet
  /\ root_tree' = None
  /\ calls' = NoCalls
  /\ used' = <<>>
  /\ UNCHANGED <<src, file, newfile, cache, target, written, loaded, start,
                 prev>>

\* ------------------------------------------------------------ between runs
Row1 == SerializeRow(1, minimize_blob(1))

\* What a damaged cache.tsv may hold: nothing; no header; a row cut after
\* its seventh field; a row with a byte that is not UTF-8.
CorruptFiles ==
  {FileOf(<<>>),
   FileOf(<<Row1>>),
   FileOf(<<HEADER, SubSeq(Row1, 1, Len(Row1) - 2)>>),
   FileOf(<<HEADER, <<BadUtf8>> \o Row1>>)}

\* After a first run that succeeded without a fault, the program is started
\* once more on the same repository, after cache.tsv was left alone ("keep"),
\* deleted ("delete") or damaged ("corrupt").  prev keeps what the finished run
\* produced, and what the last such run that started with an empty cache did.
NextRun ==
  /\ pc = "done"
  /\ fault = "-"
  /\ start.how = "init"
  /\ \E how \in {"keep", "delete", "corrupt"} :
       /\ file' \in CASE how = "keep" -> {file}
                      [] how = "delete" -> {Missing}
                      [] how = "corrupt" -> CorruptFiles
       /\ start' = [how |-> how, file |-> file']
  /\ prev' = [root |-> root_tree,
              how |-> loaded.how,
              coldfile |-> IF loaded.cache = CacheNew THEN file ELSE prev.coldfile,
              coldroot |-> IF loaded.cache = CacheNew THEN root_tree ELSE prev.coldroot]
  /\ pc' = "load"
  /\ why' = "-"
  /\ cache' = CacheNew
  /\ sizes' = SizesDefault
  /\ stack' = <<>>
  /\ ret' = NoRet
  /\ root_tree' = None
  /\ out' = <<>>
  /\ pending' = <<>>
  /\ calls' = NoCalls
  /\ used' = <<>>
  /\ written' = NoneWritten
  /\ fault' = "-"
  /\ loaded' = NotLoaded
  /\ UNCHANGED <<src, newfile, target>>

Next ==
  \/ Load
  \/ Minimize
  \/ SkipTheme
  \/ EnterTree
  \/ ProcessBlob
  \/ BadKind
  \/ Return
  \/ Save
  \/ SerializeWrite
  \/ SerializeEnd
  \/ Rename
  \/ Checkout
  \/ Crash
  \/ NextRun

Spec == Init /\ [][Next]_vars

\* ----------------------------------------------- save and load, in isolation
\* A second specification: Cache::save and the rename of main are run on an
\* arbitrary Cache, without faults, and Cache::load reads the file back.
MaxOid == Pow(16, OidHexLen) - 1
RTOids == {0, 1, 10, MaxOid}
RTRecords ==
  {minimize_blob(1),
   [minified |-> 0, gz |-> 0, br |-> 0, sizes |-> SizesDefault],
   [minified |-> MaxOid, gz |-> 10, br |-> 160,
    sizes |-> [original_len |-> 100, minified_len |-> 99, gz_len |-> 10,
               br_len |-> 9]]}
RTCaches == UNION {[keys -> RTRecords] : keys \in SUBSET RTOids}

InitRT ==
  /\ prev = NoPrev
  /\ pc = "save"
  /\ why = "-"
  /\ src = [exists |-> FALSE, tree |-> {}]
  /\ file = Missing
  /\ newfile = Missing
  /\ cache \in RTCaches
  /\ sizes = SizesDefault
  /\ stack = <<>>
  /\ ret = NoRet
  /\ root_tree = None
  /\ out = <<>>
  /\ pending = <<>>
  /\ target = None
  /\ calls = NoCalls
  /\ used = <<>>
  /\ written = NoneWritten
  /\ fault = "off"
  /\ loaded = NotLoaded
  /\ start = [how |-> "init", file |-> file]

\* Cache::load("cache.tsv") of the file the rename put in place.
Reload ==
  /\ pc = "checkout"
  /\ loaded' = CacheLoad(file)
  /\ pc' = "reloaded"
  /\ UNCHANGED <<why, src, file, newfile, cache, sizes, stack, ret, root_tree,
                 out, pending, target, calls, used, written, fault, start, prev>>

NextRT ==
  \/ Save
  \/ SerializeWrite
  \/ SerializeEnd
  \/ Rename
  \/ Reload

SpecRT == InitRT /\ [][NextRT]_vars

\* ------------------------------------------------- Cache::load, in isolation
\* A third specification: main is started in a repository without the
\* branch, on a cache.tsv of any of these forms: a header that is the
\* constant, lacks its last column or has one more, and up to two data rows,
\* each a row Cache::serialize writes, one cut after its seventh field, or
\* one with a ninth field.
Row2 == SerializeRow(2, minimize_blob(2))
FmtHeaders ==
  {HEADER,
   SubSeq(HEADER, 1, Len(HEADER) - 2),
   HEADER \o <<TAB, "x">>}
FmtRows ==
  {Row1,
   Row2,
   SubSeq(Row1, 1, Len(Row1) - 2),
   Row1 \o <<TAB, "0">>}
FmtFiles ==
  {FileOf(<<h>> \o rows) :
     h \in FmtHeaders,
     rows \in {<<>>} \cup {<<r>> : r \in FmtRows}
                \cup {<<r1, r2>> : r1 \in FmtRows, r2 \in FmtRows}}

InitFmt ==
  /\ prev = NoPrev
  /\ pc = "load"
  /\ why = "-"
  /\ src = [exists |-> FALSE, tree |-> {}]
  /\ file \in FmtFiles
  /\ newfile = Missing
  /\ cache = CacheNew
  /\ sizes = SizesDefault
  /\ stack = <<>>
  /\ ret = NoRet
  /\ root_tree = None
  /\ out = <<>>
  /\ pending = <<>>
  /\ target = None
  /\ calls = NoCalls
  /\ used = <<>>
  /\ written = NoneWritten
  /\ fault = "off"
  /\ loaded = NotLoaded
  /\ start = [how |-> "init", file |-> file]

NextFmt ==
  \/ Load
  \/ Minimize

SpecFmt == InitFmt /\ [][NextFmt]_vars

\* ------------------------------------------------------------------ claims
UsedIds == {used[i].id : i \in DOMAIN used}

\* C1: within a run minimize_blob is invoked at most once per id, and never
\* for an id the loaded cache holds; in a run that started with an empty
\* cache it is invoked exactly once for every html blob id the walk has
\* processed (and for no other id, but the one whose transform just failed);
\* and two html entries of the same id were given the same record.
C1_TransformedOncePerId ==
  /\ \A id \in HtmlIds :
       /\ calls[id] <= 1
       /\ id \in DOMAIN loaded.cache => calls[id] = 0
  /\ loaded.cache = CacheNew =>
       \A id \in HtmlIds :
         /\ id \in UsedIds => calls[id] = 1
         /\ calls[id] = 1 => (id \in UsedIds \/ fault = "minimize_blob")
  /\ \A i, j \in DOMAIN used :
       used[i].id = used[j].id => used[i].blobs = used[j].blobs

\* A run that started with an empty cache has processed two html entries of
\* the same id and has invoked minimize_blob once for it.
C1_Witness ==
  /\ pc = "save"
  /\ loaded.cache = CacheNew
  /\ Len(used) = 2
  /\ used[1].id = used[2].id
  /\ calls[used[1].id] = 1

\* C2: a run on the cache file that the preceding, successful run left
\* invokes minimize_blob for no id, and its root tree is the root tree of
\* that preceding run.
C2_WarmRunIdempotent ==
  (start.how = "keep" /\ loaded.how = "ok") =>
    /\ calls = NoCalls
    /\ root_tree.some => root_tree = prev.root

\* A second run on the kept cache has processed html entries and finished.
C2_Witness ==
  /\ start.how = "keep"
  /\ loaded.how = "ok"
  /\ pc = "done"
  /\ Len(used) = 2
  /\ used[1].id # used[2].id
  /\ prev.root.some

C4_RoundTrip ==
  pc = "reloaded" =>
    /\ loaded.how = "ok"
    /\ DOMAIN loaded.cache = DOMAIN cache
    /\ \A k \in DOMAIN cache : loaded.cache[k] = cache[k]

\* A Cache of three keys, the largest Oid among them, was saved and loaded.
C4_Witness ==
  /\ pc = "reloaded"
  /\ Cardinality(DOMAIN cache) = 3
  /\ MaxOid \in DOMAIN cache

\* C5: when Cache::load fails (the file is missing, cannot be read, or is
\* malformed), the run does not end there: it goes on with an empty cache.
C5_LoadNeverAborts ==
  loaded.how \in {"missing", "io", "err", "panic"} =>
    /\ ~(pc = "panicked" /\ why = "load")
    /\ loaded.cache = CacheNew

\* C6: a run without faults that starts after cache.tsv was deleted or
\* damaged ends with the root tree of the preceding run, which had loaded a
\* valid cache.
C6_CacheFallback ==
  (/\ start.how \in {"delete", "corrupt"}
   /\ prev.how = "ok"
   /\ fault = "-"
   /\ pc \in Ended) =>
    /\ pc = "done"
    /\ root_tree = prev.root

\* C7: during a run cache.tsv holds what it held when the run started, or
\* all the lines of the serialized cache of the run.
C7_CacheFileWhole ==
  \/ file = start.file
  \/ file = FileOf(Serialize(cache))

\* C8: once a call of Cache::save (create, write, flush) or the rename has
\* failed, the run is aborted: it reaches neither the rename, nor the
\* checkout, nor its end with success.
C8_SaveFailureFatal ==
  fault \in {"create", "write", "flush", "rename"} => pc = "panicked"

\* Whether a tree has an entry that gives an output entry: an html or image
\* blob, or a subdirectory (but the theme of the root) that has one.
RECURSIVE Yields(_, _)
Yields(tree, depth) ==
  \E e \in tree :
    \/ /\ e.kind = "blob"
       /\ \/ ends_with(e.name, DotHtml)
          \/ ends_with(e.name, DotPng)
          \/ ends_with(e.name, DotJpg)
    \/ /\ e.kind = "tree"
       /\ ~(e.name = Theme /\ depth = 0)
       /\ Yields(e.sub, depth + 1)

OutDirs(tree, name) == {x \in tree : x.name = name /\ x.mode = filemode_directory}

\* In the output tree of a source tree, a subdirectory has an entry exactly
\* when it yields output; at every level.
RECURSIVE Pruned(_, _, _)
Pruned(source, output, depth) ==
  \A e \in {x \in source : x.kind = "tree"} :
    /\ ~Yields(e.sub, depth + 1) => OutDirs(output, e.name) = {}
    /\ \A x \in OutDirs(output, e.name) :
         /\ x.sub # {}
         /\ Pruned(e.sub, x.sub, depth + 1)

\* C9: a call of minimize_tree returns None exactly when no entry of its
\* tree yields an output entry, and else a tree it has written; no written
\* tree is empty or has an entry for an empty subdirectory; and the root
\* tree has no entry for a subdirectory that yields no output.
C9_Pruning ==
  /\ ret.valid =>
       /\ ret.result.some <=> Yields(ret.tree, ret.depth)
       /\ ret.result.some => ret.result.tree \in written.trees
  /\ \A t \in written.trees :
       /\ t # {}
       /\ \A x \in t : x.mode = filemode_directory => x.sub # {}
  /\ root_tree.some => Pruned(src.tree, root_tree.tree, 0)

\* A run has finished the walk of a root that has a subdirectory with
\* entries, none of which yields output: the root tree has no entry for it.
C9_Witness ==
  /\ pc = "save"
  /\ \E e \in src.tree :
       /\ e.kind = "tree"
       /\ e.name # Theme
       /\ e.sub # {}
       /\ e.name \notin Names(root_tree.tree)

\* The ids of the html blobs of a tree, but those under the theme directory
\* of the root.
RECURSIVE HtmlOutsideTheme(_, _)
HtmlOutsideTheme(tree, depth) ==
  {e.id : e \in {x \in tree : x.kind = "blob" /\ ends_with(x.name, DotHtml)}}
    \cup UNION {HtmlOutsideTheme(e.sub, depth + 1) :
                  e \in {x \in tree : x.kind = "tree" /\ ~(x.name = Theme /\ depth = 0)}}

\* A theme directory below the root that yields output has an entry in the
\* output tree of its parent; at every level.
RECURSIVE NestedThemeKept(_, _, _)
NestedThemeKept(source, output, depth) ==
  \A e \in {x \in source : x.kind = "tree" /\ ~(x.name = Theme /\ depth = 0)} :
    Yields(e.sub, depth + 1) =>
      /\ OutDirs(output, e.name) # {}
      /\ \A x \in OutDirs(output, e.name) : NestedThemeKept(e.sub, x.sub, depth + 1)

\* C10: minimize_tree is never called on the theme directory of the root;
\* minimize_blob is invoked only for, and the cache gains only, ids of html
\* blobs outside that directory; the root tree has no entry named theme;
\* and a theme directory at depth 1 or more that has transformable content
\* has its entry in the tree the call on its parent returns, and so at every
\* level of the root tree.
C10_RootTheme ==
  /\ \A i \in DOMAIN stack : ~(stack[i].depth = 1 /\ stack[i].name = Theme)
  /\ (ret.valid /\ ret.depth >= 1) =>
       \A e \in {x \in ret.tree : x.kind = "tree" /\ x.name = Theme} :
         Yields(e.sub, ret.depth + 1) =>
           /\ ret.result.some
           /\ OutDirs(ret.result.tree, Theme) # {}
  /\ \A id \in HtmlIds :
       (calls[id] > 0 \/ id \in DOMAIN cache \ DOMAIN loaded.cache) =>
         id \in HtmlOutsideTheme(src.tree, 0)
  /\ root_tree.some =>
       /\ Theme \notin Names(root_tree.tree)
       /\ NestedThemeKept(src.tree, root_tree.tree, 0)

\* A run has finished the walk of a root whose theme directory holds an
\* html blob that the cache does not know.
C10_Witness ==
  /\ pc = "save"
  /\ \E e \in src.tree :
       /\ e.kind = "tree"
       /\ e.name = Theme
       /\ \E b \in e.sub : b.kind = "blob" /\ ends_with(b.name, DotHtml)
                           /\ b.id \notin DOMAIN cache

\* The entries of an output tree that have the given name.
Named(tree, name) == {x \in tree : x.name = name}

\* C11: the tree a call of minimize_tree returns has, for every html blob
\* entry N of its source tree, exactly the entries N, N.gz and N.br, regular
\* files with the minified, gzip and brotli id of the record of the blob,
\* whatever the other entries of the source tree are.
C11_FanOut ==
  ret.valid =>
    \A e \in {x \in ret.tree : x.kind = "blob" /\ ends_with(x.name, DotHtml)} :
      /\ ret.result.some
      /\ e.id \in DOMAIN cache
      /\ Named(ret.result.tree, e.name) =
           {[name |-> e.name, id |-> cache[e.id].minified,
             mode |-> filemode_regular, sub |-> {}]}
      /\ Named(ret.result.tree, e.name \o DotGz) =
           {[name |-> e.name \o DotGz, id |-> cache[e.id].gz,
             mode |-> filemode_regular, sub |-> {}]}
      /\ Named(ret.result.tree, e.name \o DotBr) =
           {[name |-> e.name \o DotBr, id |-> cache[e.id].br,
             mode |-> filemode_regular, sub |-> {}]}

RECURSIVE SumOf(_, _)
\* The sum of one component of the Sizes of the records in `recs`, the last
\* record first.
SumOf(recs, field) ==
  IF recs = <<>> THEN 0
  ELSE recs[Len(recs)].blobs.sizes[field] + SumOf(SubSeq(recs, 1, Len(recs) - 1), field)

\* C12: during the walk and after it the running total is, in each of its
\* four components, the sum of that component over the records
\* minimize_blob_cached returned for the html entries processed, from the
\* cache or freshly computed, summed in any order.
C12_SizeAggregation ==
  pc \in {"walk", "save", "serialize", "rename", "checkout", "done"} =>
    \A field \in {"original_len", "minified_len", "gz_len", "br_len"} :
      sizes[field] = SumOf(used, field)

\* A walk has ended that used a record of the loaded cache and then a
\* freshly computed one, of different sizes.
C12_Witness ==
  /\ pc = "save"
  /\ Len(used) = 2
  /\ used[1].id \in DOMAIN loaded.cache
  /\ used[2].id \notin DOMAIN loaded.cache
  /\ used[1].blobs.sizes # used[2].blobs.sizes

\* C13: the target directory changes only in a run that ends with success,
\* and a run ends with success only when the branch was resolved, the walk
\* gave a root tree and no step of the run (but the load of the cache)
\* failed.
C13_NoDeployOnFailure ==
  /\ pc # "done" => target = prev.root
  /\ pc = "done" =>
       /\ src.exists
       /\ root_tree.some
       /\ target = root_tree
       /\ fault \in {"-", "open"}

\* C14: a run that ends on an entry that is neither a blob nor a tree has
\* written no tree to the store.
C14_NoPartialTree ==
  (pc = "panicked" /\ why = "kind") => written.trees = {}

\* C15: cache.tsv holds what it held when the run started until the rename
\* of main, which comes after a walk that gave a root tree; a run that ends
\* in the load, the resolution of the branch, the walk or the save has left
\* it as it was, whatever records the run had computed.
C15_CacheFileReplacedOnce ==
  /\ pc \in {"load", "minimize", "walk", "save", "serialize", "rename"} =>
       file = start.file
  /\ (pc \in {"aborted", "panicked"} /\ why # "checkout") => file = start.file
  /\ (file # start.file /\ pc # "crashed") =>
       /\ root_tree.some
       /\ stack = <<>>
       /\ newfile = Missing

\* A run that had computed a record the cache file does not hold was aborted
\* in the walk.
C15_Witness ==
  /\ pc = "aborted"
  /\ why = "store"
  /\ file.exists
  /\ DOMAIN cache # DOMAIN loaded.cache

\* C16: a cache file that Cache::deserialize accepts has the header constant
\* as its first line and, on every other line, exactly eight tab-separated
\* fields.
C16_FormatStrict ==
  loaded.how = "ok" =>
    /\ file.lines # <<>>
    /\ Head(file.lines) = HEADER
    /\ \A i \in 2..Len(file.lines) : Len(Split(file.lines[i], <<>>)) = 8

\* C17: in the tree a call of minimize_tree returns, every .png or .jpg blob
\* of its source tree has one entry, of its name and id and of regular-file
\* mode, and a blob that is neither html nor such an image has no entry; and
\* the step of the walk on a blob that is not html changes neither the
\* cache, nor the running total, nor the invocations of minimize_blob, nor
\* the store, and changes the builder by that one entry, or not at all.
C17_ImagePassThrough ==
  /\ [](ret.valid =>
          \A e \in {x \in ret.tree : x.kind = "blob" /\ ~ends_with(x.name, DotHtml)} :
            IF ends_with(e.name, DotPng) \/ ends_with(e.name, DotJpg)
            THEN Named(ret.result.tree, e.name) =
                   {[name |-> e.name, id |-> e.id, mode |-> filemode_regular,
                     sub |-> {}]}
            ELSE Named(ret.result.tree, e.name) = {})
  /\ [][(/\ pc = "walk"
         /\ Top.todo # <<>>
         /\ Entry.kind = "blob"
         /\ ~ends_with(Entry.name, DotHtml)
         /\ pc' # "crashed") =>
          /\ cache' = cache
          /\ sizes' = sizes
          /\ calls' = calls
          /\ used' = used
          /\ written' = written
          /\ pc' = "walk" =>
               stack'[Len(stack')].builder =
                 IF ends_with(Entry.name, DotPng) \/ ends_with(Entry.name, DotJpg)
                 THEN {x \in Top.builder : x.name # Entry.name}
                        \cup {[name |-> Entry.name, id |-> Entry.id,
                               mode |-> filemode_regular, sub |-> {}]}
                 ELSE Top.builder]_vars

\* A walk has ended on a root that holds a .png blob, which is in the root
\* tree, and a blob that is neither html nor an image.
C17_Witness ==
  /\ pc = "save"
  /\ \E e \in src.tree : e.kind = "blob" /\ e.name = NotesMd
  /\ \E e \in src.tree :
       /\ e.kind = "blob"
       /\ e.name = LogoPng
       /\ [name |-> LogoPng, id |-> e.id, mode |-> filemode_regular, sub |-> {}]
            \in root_tree.tree

\* The key of a data row of the cache file.
RowKey(line) == OidFromStr(Split(line, <<>>)[1]).val

\* C18: the cache file that a run without a failed write has put in place is
\* the header and one row per key of the cache, the row of that key and its
\* record, the keys strictly ascending.
C18_SerializationOrder ==
  (pc \in {"checkout", "done"} /\ fault \in {"-", "open"}) =>
    /\ Len(file.lines) = 1 + Cardinality(DOMAIN cache)
    /\ file.lines[1] = HEADER
    /\ \A i \in 2..Len(file.lines) :
         /\ RowKey(file.lines[i]) \in DOMAIN cache
         /\ file.lines[i] = SerializeRow(RowKey(file.lines[i]),
                                         cache[RowKey(file.lines[i])])
    /\ \A i, j \in 2..Len(file.lines) :
         i < j => RowKey(file.lines[i]) < RowKey(file.lines[j])

\* A run that started with an empty cache and inserted the larger id first
\* has put its cache file in place.
C18_Witness ==
  /\ pc = "checkout"
  /\ fault = "-"
  /\ loaded.cache = CacheNew
  /\ Len(used) = 2
  /\ used[1].id > used[2].id

\* C19: in a repository without the branch the run never enters the walk or
\* a later step: minimize_blob is not invoked, nothing is written to the
\* store, cache.tsv is as it was and nothing is checked out.
C19_MissingBranch ==
  ~src.exists =>
    /\ pc \in {"load", "minimize", "aborted", "panicked", "crashed"}
    /\ why \in {"-", "branch", "load", "kill"}
    /\ stack = <<>>
    /\ calls = NoCalls
    /\ used = <<>>
    /\ cache = loaded.cache
    /\ written = NoneWritten
    /\ file = start.file
    /\ newfile = Missing
    /\ target = None

\* A run on a repository without the branch, and with a cache file, has
\* ended in minimize.
C19_Witness ==
  /\ ~src.exists
  /\ pc = "aborted"
  /\ why = "branch"
  /\ file.exists
  /\ loaded.how = "ok"

\* C20: a step of the walk leaves every record of the cache as it is and adds
\* at most one; a record is added only for an id that had none, with an
\* invocation of minimize_blob, and it is the record returned; for an id that
\* has a record the cache is unchanged, minimize_blob is not invoked and that
\* record is returned; and a failed minimize_blob leaves the cache unchanged.
C20_CacheFrame ==
  [][pc = "walk" =>
       LET grown == Len(used') = Len(used) + 1
           u == used'[Len(used')]
           added == DOMAIN cache' \ DOMAIN cache
       IN  /\ \A k \in DOMAIN cache : k \in DOMAIN cache' /\ cache'[k] = cache[k]
           /\ Cardinality(added) <= 1
           /\ \A id \in added :
                /\ calls'[id] = calls[id] + 1
                /\ grown
                /\ u = [id |-> id, blobs |-> cache'[id]]
           /\ (grown /\ u.id \in DOMAIN cache) =>
                /\ cache' = cache
                /\ calls' = calls
                /\ u.blobs = cache[u.id]
           /\ (fault = "-" /\ fault' = "minimize_blob") =>
                /\ cache' = cache
                /\ used' = used]_vars

\* After a record was added for one id, minimize_blob failed for another.
C20_Witness ==
  /\ fault = "minimize_blob"
  /\ Len(used) = 1
  /\ used[1].id \notin DOMAIN loaded.cache
  /\ DOMAIN cache = DOMAIN loaded.cache \cup {used[1].id}

====
